---- MODULE Spec2Model ----
(***************************************************************************)
(* Model of the cache / rate-limit subsystem of OtakuShelf:                *)
(*   backend/src/rate_limit.py  the RateLimiter class with its two backing *)
(*     stores, the Redis sorted set behind a MULTI/EXEC pipeline and the   *)
(*     in-process dict of timestamp lists;                                 *)
(*   backend/src/cache.py  the Cache class over the same two stores, and   *)
(*     the lazily built process-wide instances of both classes.            *)
(***************************************************************************)
EXTENDS Integers, Sequences, FiniteSets, TLC

\* ------------------------------------------------------------------ bounds
MaxLimit == 2      \* largest limit N of a profile
MaxWindow == 2     \* largest window W of a profile, in seconds
MaxTime == 3       \* the clock runs from 0 to MaxTime
MaxCalls == 3      \* number of public calls in one behaviour
MaxThreadCalls == 1  \* is_allowed calls one thread makes (concurrent model)
MaxFaults == 1     \* number of calls in one behaviour during which the store fails
MaxTtl == 2        \* largest ttl a caller of the cache passes, in seconds
MaxGetCalls == 2   \* get_cache / get_rate_limiter calls one thread makes
MaxItems == 2      \* number of rows the watchlist table is ever given
MaxWrapperCalls == 4  \* calls of rate_limit wrappers in one behaviour

Keys == {"login:user1", "login:user2"}
Limits == 1..MaxLimit
Windows == 1..MaxWindow
Threads == {"T1", "T2"}
ConcKey == "login:user1"

VARIABLES
    redis_client,    \* TRUE iff self._redis_client is set (store chosen in __init__)
    limit,           \* the profile's limit N passed to every call
    window,          \* the profile's window W passed to every call
    now,             \* int(time.time())
    memory_limits,   \* self._memory_limits: dict key -> list of timestamps
    redis_db,        \* keyspace of the shared store: key -> [zset, expire_at]
    hist,            \* per key, the is_allowed calls since the key was last reset
    last,            \* what the most recent public call did and returned
    ncalls,          \* number of public calls made so far
    nfaults,         \* number of calls so far during which the store failed
    pc,              \* per thread, position inside is_allowed (concurrent model)
    current_time,           \* per thread, its local current_time
    t_new,           \* per thread, the filtered list it built but has not assigned
    t_calls,         \* per thread, number of is_allowed calls started
    admitted         \* concurrent model: call times of the calls that returned true

VARIABLES
    cache_redis_client,  \* TRUE iff the Cache's self._redis_client is set
    memory_cache,        \* Cache._memory_cache: dict key -> (value, expiry)
    val,                 \* the value under test that the callers cache
    ttl_arg              \* the ttl argument the callers pass

VARIABLES
    gos_value,           \* per thread, the local `value` of its get_or_set call
    func_calls,          \* per thread, how often its producer func() has run
    returned,            \* per thread, what its get_or_set call returned
    writes               \* the successful set calls of the threads, in order

VARIABLES
    REDIS_AVAILABLE,     \* TRUE iff `import redis` succeeded
    settings_redis_url,  \* what evaluating settings.redis_url yields
    instance,            \* _cache_instance / _rate_limiter_instance (0 is None)
    built,               \* per component, how many objects have been constructed
    construction,        \* the most recent run of a constructor
    handed,              \* the instances the accessors have returned so far
    acc                  \* per thread, the locals of its accessor call

VARIABLES
    watchlist_items,     \* rows of the watchlistitem table
    wl_next_id,          \* the id the table gives to the next inserted row
    wl_local,            \* per worker, the locals of its add_to_watchlist call
    wl_response,         \* per worker, the response its last request got
    wrapped,             \* what the most recent call of a rate_limit wrapper did
    inflight,            \* the command a client has sent to the shared store
    store_answers        \* TRUE while the shared store answers what it is sent

\* the state of the Cache and the arguments of its callers
cacheVars == <<cache_redis_client, memory_cache, val, ttl_arg>>

\* the threads that race on get_or_set
raceVars == <<gos_value, func_calls, returned, writes>>

\* the module-level state around the two singletons
bootVars == <<REDIS_AVAILABLE, settings_redis_url, instance, built, construction,
              handed, acc>>

\* the watchlist endpoints, the rate_limit wrapper and the store connection
appVars == <<watchlist_items, wl_next_id, wl_local, wl_response, wrapped,
             inflight, store_answers>>

\* everything the RateLimiter's operations leave alone
extVars == <<cacheVars, raceVars, bootVars, appVars>>

\* everything the sequential operations of the Cache leave alone
idleVars == <<raceVars, bootVars, appVars>>

vars == <<redis_client, limit, window, now, memory_limits, redis_db, hist,
          last, ncalls, nfaults, pc, current_time, t_new, t_calls, admitted,
          cache_redis_client, memory_cache, val, ttl_arg,
          gos_value, func_calls, returned, writes,
          REDIS_AVAILABLE, settings_redis_url, instance, built, construction,
          handed, acc,
          watchlist_items, wl_next_id, wl_local, wl_response, wrapped,
          inflight, store_answers>>

\* the locals of the threads of the concurrent model
threadVars == <<pc, current_time, t_new, t_calls, admitted>>

\* ------------------------------------------------------------ arithmetic
Max(a, b) == IF a >= b THEN a ELSE b

SetMin(S) == CHOOSE x \in S : \A y \in S : x <= y

SeqToSet(s) == {s[i] : i \in 1..Len(s)}

\* number of positions of s holding a value that satisfies the window test
CountIn(s, lo, hi) == Cardinality({i \in 1..Len(s) : lo < s[i] /\ s[i] <= hi})

\* str(n) for n >= 0: the decimal digits of n, most significant first
RECURSIVE Str(_)
Str(n) == IF n < 10 THEN <<n>> ELSE Append(Str(n \div 10), n % 10)

\* --------------------------------------------------- shared store (Redis)
\* a sorted set is a set of [member, score] with one entry per member

ZRemRangeByScore(zs, lo, hi) == {e \in zs : ~(lo <= e.score /\ e.score <= hi)}

ZAdd(zs, member, score) ==
    {e \in zs : e.member # member} \cup {[member |-> member, score |-> score]}

ZCard(zs) == Cardinality(zs)

\* the sorted set stored under k; a missing key reads as the empty set
ZSetOf(db, k) == IF k \in DOMAIN db THEN db[k].zset ELSE {}

\* write zs under k; Redis removes a key whose sorted set became empty
PutZSet(db, k, zs, exp) ==
    IF zs = {}
    THEN [x \in DOMAIN db \ {k} |-> db[x]]
    ELSE [x \in DOMAIN db \cup {k} |->
            IF x = k THEN [zset |-> zs, expire_at |-> exp] ELSE db[x]]

ExpireAtOf(db, k) == IF k \in DOMAIN db THEN db[k].expire_at ELSE 0

\* the keyspace without the keys whose TTL ran out during second t or before
Expired(db, t) == [x \in {y \in DOMAIN db : db[y].expire_at > t} |-> db[x]]

\* the pipeline of is_allowed: zremrangebyscore, zadd, zcard, expire
RedisIsAllowed(db, k, t, srv, N, W) ==
    LET z1 == ZRemRangeByScore(ZSetOf(db, k), 0, t - W)
        z2 == ZAdd(z1, Str(t), t)
        request_count == ZCard(z2)
    IN  [db |-> PutZSet(db, k, z2, srv + W), result |-> request_count <= N]

RedisGetRemainingMut(db, k, t, N, W) ==
    LET z1 == ZAdd(ZRemRangeByScore(ZSetOf(db, k), 0, t - W), Str(t), t)
    IN  [db |-> PutZSet(db, k, z1, ExpireAtOf(db, k)),
         result |-> Max(0, N - ZCard(z1))]

\* the pipeline of get_remaining_requests: zremrangebyscore, zcard
RedisGetRemaining(db, k, t, N, W) ==
    LET z1 == ZRemRangeByScore(ZSetOf(db, k), 0, t - W)
    IN  [db |-> PutZSet(db, k, z1, ExpireAtOf(db, k)),
         result |-> Max(0, N - ZCard(z1))]

RedisResetMut(db, k) == [db |-> <<>>, result |-> k \in DOMAIN db]

\* reset_limit: bool(delete(key))
RedisReset(db, k) ==
    [db |-> [x \in DOMAIN db \ {k} |-> db[x]], result |-> k \in DOMAIN db]

\* ------------------------------------------------- local store (the dict)
ListOf(m, k) == IF k \in DOMAIN m THEN m[k] ELSE <<>>

SetItem(m, k, v) == [x \in DOMAIN m \cup {k} |-> IF x = k THEN v ELSE m[x]]

FilterMut(lst, cutoff) == SelectSeq(lst, LAMBDA ts : ts >= cutoff)

\* [ts for ts in lst if ts > cutoff]
Filter(lst, cutoff) == SelectSeq(lst, LAMBDA ts : ts > cutoff)

LocalIsAllowed(m, k, t, N, W) ==
    LET m1 == IF k \notin DOMAIN m THEN SetItem(m, k, <<>>) ELSE m
        cutoff == t - W
        m2 == SetItem(m1, k, Filter(m1[k], cutoff))
    IN  IF Len(m2[k]) < N
        THEN [m |-> SetItem(m2, k, Append(m2[k], t)), result |-> TRUE]
        ELSE [m |-> m2, result |-> FALSE]

LocalGetRemaining(m, k, t, N, W) ==
    LET current_count == IF k \in DOMAIN m THEN Len(Filter(m[k], t - W)) ELSE 0
    IN  [m |-> m, result |-> Max(0, N - current_count)]

LocalResetMut(m, k) ==
    [m |-> m, result |-> k \in DOMAIN m]

LocalReset(m, k) ==
    IF k \in DOMAIN m
    THEN [m |-> [x \in DOMAIN m \ {k} |-> m[x]], result |-> TRUE]
    ELSE [m |-> m, result |-> FALSE]

\* ---------------------------------------- what the store holds, either one
\* the distinct timestamps recorded under k, and how many entries hold them
RecordedSet(k) ==
    IF redis_client THEN {e.score : e \in ZSetOf(redis_db, k)}
    ELSE SeqToSet(ListOf(memory_limits, k))

RecordedCount(k) ==
    IF redis_client THEN ZCard(ZSetOf(redis_db, k))
    ELSE Len(ListOf(memory_limits, k))

\* how many of the timestamps recorded under k lie inside the window at now
LiveCount(k) ==
    IF redis_client
    THEN Cardinality({e \in ZSetOf(redis_db, k) : e.score > now - window})
    ELSE CountIn(ListOf(memory_limits, k), now - window, now)

\* the result the three operations would give in the current state
WouldAllow(k) ==
    IF redis_client THEN RedisIsAllowed(redis_db, k, now, now, limit, window).result
    ELSE LocalIsAllowed(memory_limits, k, now, limit, window).result

RemainingNow(k) ==
    IF redis_client THEN RedisGetRemaining(redis_db, k, now, limit, window).result
    ELSE LocalGetRemaining(memory_limits, k, now, limit, window).result

NoCall == [op |-> "none", key |-> "", t |-> 0, result |-> 0, failed |-> FALSE,
           raised |-> FALSE, pre |-> {}, preLive |-> 0, preAllow |-> <<>>,
           preRemaining |-> <<>>, exhausted |-> FALSE]

\* ------------------------------------------------------------ cached values
\* Python values, written as their repr: the JSON values a caller may cache
PyNone == "None"

PyValues == {"None", "False", "0", "''", "[]", "{'name': 'a'}", "'ok'"}

\* a value json.dumps refuses: a Python set
NotJson == "{1, 2}"

\* what json.dumps does with it
TypeError == "(TypeError)"

JsonSerializable(v) == v \in PyValues

\* the value the health check caches
HealthValue == "'ok'"

CacheKeys == {"user:profile:42", "health_check_test"}

\* json.dumps(v): the JSON text of each value
Dumps(v) ==
    CASE v = "None" -> "null"
      [] v = "False" -> "false"
      [] v = "0" -> "0"
      [] v = "''" -> "\"\""
      [] v = "[]" -> "[]"
      [] v = "{'name': 'a'}" -> "{\"name\": \"a\"}"
      [] v = "'ok'" -> "\"ok\""
      [] v = NotJson -> TypeError

\* json.loads(text): the value whose JSON text it is
Loads(text) == CHOOSE v \in PyValues : Dumps(v) = text

\* what redis.get returns for a missing key
Nil == "(nil)"

\* `if value:` on the reply of redis.get: None and empty bytes are falsy
BytesTruthy(b) == b # Nil /\ b # ""

\* truthiness of a Python value
PyTruthy(v) == v \notin {"None", "False", "0", "''", "[]"}

\* the ttl argument: None or a number of seconds
NoTtl == [given |-> FALSE, secs |-> 0]

Ttl(n) == [given |-> TRUE, secs |-> n]

TtlArgs == {NoTtl} \cup {Ttl(n) : n \in (0 - 1)..MaxTtl}

\* `if ttl` / `ttl or ...`: None and 0 are falsy
TtlTruthy(ttl) == ttl.given /\ ttl.secs # 0

DEFAULT_TTL == 3600

\* ttl or 3600
TtlOrDefault(ttl) == IF TtlTruthy(ttl) THEN ttl.secs ELSE DEFAULT_TTL

\* --------------------------------------------------- Cache on the local dict
DelItem(m, k) == [x \in DOMAIN m \ {k} |-> m[x]]

LocalCacheGetMut(mc, k, t) ==
    IF k \in DOMAIN mc /\ (~mc[k].has_expiry \/ t < mc[k].expiry)
    THEN [m |-> mc, result |-> mc[k].value]
    ELSE [m |-> mc, result |-> PyNone]

\* get, local branch: an entry past its expiry is deleted and reads as None
LocalCacheGet(mc, k, t) ==
    IF k \in DOMAIN mc
    THEN IF ~mc[k].has_expiry \/ t < mc[k].expiry
         THEN [m |-> mc, result |-> mc[k].value]
         ELSE [m |-> DelItem(mc, k), result |-> PyNone]
    ELSE [m |-> mc, result |-> PyNone]

LocalCacheSetMut(mc, k, v, ttl, t) ==
    [m |-> IF k \in DOMAIN mc THEN mc ELSE SetItem(mc, k, [value |-> v, has_expiry |-> FALSE, expiry |-> 0]),
     result |-> TRUE]

\* set, local branch: expiry = time.time() + (ttl or 3600) if ttl else None
LocalCacheSet(mc, k, v, ttl, t) ==
    LET entry == IF TtlTruthy(ttl)
                 THEN [value |-> v, has_expiry |-> TRUE, expiry |-> t + TtlOrDefault(ttl)]
                 ELSE [value |-> v, has_expiry |-> FALSE, expiry |-> 0]
    IN  [m |-> SetItem(mc, k, entry), result |-> TRUE]

LocalCacheDeleteMut(mc, k) == [m |-> mc, result |-> k \in DOMAIN mc]

\* delete, local branch
LocalCacheDelete(mc, k) ==
    IF k \in DOMAIN mc
    THEN [m |-> DelItem(mc, k), result |-> TRUE]
    ELSE [m |-> mc, result |-> FALSE]

\* clear, local branch
LocalCacheClear(mc) == [m |-> <<>>, result |-> TRUE]

\* -------------------------------------------------- Cache on the shared store
\* a string key of the keyspace is [str, expire_at]; it is gone once the
\* clock reaches expire_at
StrLive(db, k, t) == k \in DOMAIN db /\ db[k].expire_at > t

\* redis.get(key)
RedisGet(db, k, t) == IF StrLive(db, k, t) THEN db[k].str ELSE Nil

RedisCacheGetMut(db, k, t) ==
    LET value == RedisGet(db, k, t)
    IN  [db |-> db,
         result |-> IF BytesTruthy(value) /\ PyTruthy(Loads(value))
                    THEN Loads(value) ELSE PyNone]

\* get, shared-store branch: if value: return json.loads(value)
RedisCacheGet(db, k, t) ==
    LET value == RedisGet(db, k, t)
    IN  [db |-> db,
         result |-> IF BytesTruthy(value) THEN Loads(value) ELSE PyNone]

\* redis.setex(key, seconds, text): the server refuses seconds <= 0
RedisSetEx(db, k, secs, text, t) ==
    IF secs <= 0
    THEN [db |-> db, exc |-> "ResponseError", reply |-> FALSE]
    ELSE [db |-> SetItem(db, k, [str |-> text, expire_at |-> t + secs]),
          exc |-> "none", reply |-> TRUE]

\* set, except branch: return False
SetOnError == FALSE

\* set, shared-store branch: bool(setex(key, ttl or 3600, json.dumps(value)))
RedisCacheSet(db, k, v, ttl, t) ==
    LET r == RedisSetEx(db, k, TtlOrDefault(ttl), Dumps(v), t)
    IN  IF Dumps(v) = TypeError
        THEN [db |-> db, result |-> SetOnError]
        ELSE [db |-> r.db, result |-> IF r.exc = "none" THEN r.reply ELSE SetOnError]

\* delete, shared-store branch: bool(delete(key))
RedisCacheDelete(db, k, t) ==
    [db |-> IF StrLive(db, k, t) THEN DelItem(db, k) ELSE db,
     result |-> StrLive(db, k, t)]

\* clear, shared-store branch: bool(flushdb())
RedisFlushDb(db) == [db |-> <<>>, result |-> TRUE]

\* ------------------------------------------------ the Cache, either store
\* each yields the two stores after the call and the value returned
CacheGet(mc, db, k, t) ==
    IF cache_redis_client
    THEN [m |-> mc, db |-> RedisCacheGet(db, k, t).db,
          result |-> RedisCacheGet(db, k, t).result]
    ELSE [m |-> LocalCacheGet(mc, k, t).m, db |-> db,
          result |-> LocalCacheGet(mc, k, t).result]

CacheSet(mc, db, k, v, ttl, t) ==
    IF cache_redis_client
    THEN [m |-> mc, db |-> RedisCacheSet(db, k, v, ttl, t).db,
          result |-> RedisCacheSet(db, k, v, ttl, t).result]
    ELSE [m |-> LocalCacheSet(mc, k, v, ttl, t).m, db |-> db,
          result |-> LocalCacheSet(mc, k, v, ttl, t).result]

CacheDelete(mc, db, k, t) ==
    IF cache_redis_client
    THEN [m |-> mc, db |-> RedisCacheDelete(db, k, t).db,
          result |-> RedisCacheDelete(db, k, t).result]
    ELSE [m |-> LocalCacheDelete(mc, k).m, db |-> db,
          result |-> LocalCacheDelete(mc, k).result]

CacheClear(mc, db) ==
    IF cache_redis_client
    THEN [m |-> mc, db |-> RedisFlushDb(db).db, result |-> RedisFlushDb(db).result]
    ELSE [m |-> LocalCacheClear(mc).m, db |-> db, result |-> LocalCacheClear(mc).result]

\* get_or_set with a producer that returns v: invoked tells whether func() ran
CacheGetOrSet(mc, db, k, v, ttl, t) ==
    LET g == CacheGet(mc, db, k, t)
        w == CacheSet(g.m, g.db, k, v, ttl, t)
    IN  IF g.result # PyNone
        THEN [m |-> g.m, db |-> g.db, result |-> g.result, invoked |-> FALSE]
        ELSE [m |-> w.m, db |-> w.db, result |-> v, invoked |-> TRUE]

\* what get(k) would return in the current state
WouldGet(k) == CacheGet(memory_cache, redis_db, k, now).result

\* k holds an entry that has not expired
EntryLive(k) ==
    IF cache_redis_client THEN StrLive(redis_db, k, now)
    ELSE /\ k \in DOMAIN memory_cache
         /\ (~memory_cache[k].has_expiry \/ now < memory_cache[k].expiry)

\* k has an entry in the store, expired or not
EntryStored(k) ==
    IF cache_redis_client THEN StrLive(redis_db, k, now)
    ELSE k \in DOMAIN memory_cache

\* the value stored under k (None when there is no entry)
StoredValue(k) ==
    IF cache_redis_client
    THEN (IF StrLive(redis_db, k, now) THEN Loads(redis_db[k].str) ELSE PyNone)
    ELSE (IF k \in DOMAIN memory_cache THEN memory_cache[k].value ELSE PyNone)

\* the Cache as the RateLimiter's behaviours leave it: local store, untouched
CacheIdle ==
    /\ cache_redis_client = FALSE
    /\ memory_cache = <<>>
    /\ val = HealthValue
    /\ ttl_arg = NoTtl

\* no thread is inside get_or_set
RaceIdle ==
    /\ gos_value = [p \in Threads |-> PyNone]
    /\ func_calls = [p \in Threads |-> 0]
    /\ returned = [p \in Threads |-> PyNone]
    /\ writes = <<>>

\* ------------------------------------------- construction and singletons
Components == {"Cache", "RateLimiter"}

\* settings.redis_url: Settings declares no such field, so reading it raises
\* AttributeError; a settings object that carries the field holds "" or a URL
Undeclared == "(AttributeError)"

RedisUrls == {Undeclared, "", "redis://localhost:6379"}

\* __init__ of either class: the store it selects, or the error it raises
NewComponent(available, url, ping_ok) ==
    IF ~available THEN [raised |-> FALSE, client |-> FALSE]
    ELSE IF url = Undeclared THEN [raised |-> TRUE, client |-> FALSE]
    ELSE IF url = "" THEN [raised |-> FALSE, client |-> FALSE]
    ELSE [raised |-> FALSE, client |-> ping_ok]

NoConstruction ==
    [done |-> FALSE, comp |-> "", raised |-> FALSE, client |-> FALSE, ping_ok |-> FALSE]

NoAccess == [comp |-> "", new |-> 0, calls |-> 0]

\* both components were built from settings that carry a URL; no accessor call
\* is under way
BootIdle ==
    /\ REDIS_AVAILABLE = TRUE
    /\ settings_redis_url = "redis://localhost:6379"
    /\ instance = [c \in Components |-> 1]
    /\ built = [c \in Components |-> 1]
    /\ construction = NoConstruction
    /\ handed = {}
    /\ acc = [p \in Threads |-> NoAccess]

\* ------------------------------- endpoints, wrapper and store connection
\* the workers that serve requests; each has its own database session
Workers == Threads

\* a worker that is not inside add_to_watchlist
NoAdd == [pc |-> "idle", handler |-> "", user_id |-> 0, anime_id |-> 0,
          existing |-> FALSE]

\* a worker that has sent no response yet
NoResponse == [op |-> "none", status_code |-> 0, message |-> <<>>,
               duplicate |-> FALSE, unchanged |-> TRUE]

\* no wrapper produced by rate_limit has been called yet
NoWrapped == [called |-> FALSE, limit_name |-> "", has_request |-> FALSE,
              user |-> 0, raised |-> "", checked |-> FALSE, key |-> "",
              limit |-> 0, window |-> 0, allowed |-> FALSE, endpoint_calls |-> 0]

\* no command is on its way to the shared store
NoCommand == [op |-> "none", key |-> "", returned |-> TRUE, failed |-> FALSE]

\* an empty watchlist table, no request under way, a store that answers
AppIdle ==
    /\ watchlist_items = {}
    /\ wl_next_id = 1
    /\ wl_local = [p \in Workers |-> NoAdd]
    /\ wl_response = [p \in Workers |-> NoResponse]
    /\ wrapped = NoWrapped
    /\ inflight = NoCommand
    /\ store_answers = TRUE

\* ------------------------------------------------------------------- Init
Init ==
    /\ redis_client \in BOOLEAN
    /\ limit \in Limits
    /\ window \in Windows
    /\ now = 0
    /\ memory_limits = <<>>
    /\ redis_db = <<>>
    /\ hist = [k \in Keys |-> <<>>]
    /\ last = NoCall
    /\ ncalls = 0
    /\ nfaults = 0
    /\ pc = [p \in Threads |-> "idle"]
    /\ current_time = [p \in Threads |-> 0]
    /\ t_new = [p \in Threads |-> <<>>]
    /\ t_calls = [p \in Threads |-> 0]
    /\ admitted = <<>>
    /\ CacheIdle
    /\ RaceIdle
    /\ AppIdle
    /\ BootIdle

\* ------------------------------------------------ the sequential operations
Snapshot(k) ==
    [pre |-> RecordedSet(k),
     preLive |-> LiveCount(k),
     preAllow |-> [x \in Keys |-> WouldAllow(x)],
     preRemaining |-> [x \in Keys |-> RemainingNow(x)],
     exhausted |-> RemainingNow(k) = 0]

Called(op, k, res, snap) ==
    [op |-> op, key |-> k, t |-> now, result |-> res, failed |-> FALSE,
     raised |-> FALSE,
     pre |-> snap.pre, preLive |-> snap.preLive, preAllow |-> snap.preAllow,
     preRemaining |-> snap.preRemaining, exhausted |-> snap.exhausted]

\* oldest timestamp recorded under k in the given stores, 0 - 1 when none
Oldest(S) == IF S = {} THEN 0 - 1 ELSE SetMin(S)

is_allowed(k) ==
    /\ ncalls < MaxCalls
    /\ LET snap == Snapshot(k)
           r == IF redis_client
                THEN RedisIsAllowed(redis_db, k, now, now, limit, window)
                ELSE LocalIsAllowed(memory_limits, k, now, limit, window)
           rec == IF redis_client THEN {e.score : e \in ZSetOf(r.db, k)}
                  ELSE SeqToSet(ListOf(r.m, k))
       IN  /\ IF redis_client
              THEN redis_db' = r.db /\ UNCHANGED memory_limits
              ELSE memory_limits' = r.m /\ UNCHANGED redis_db
           /\ hist' = [hist EXCEPT ![k] =
                         Append(@, [t |-> now, ok |-> r.result, oldest |-> Oldest(rec)])]
           /\ last' = Called("is_allowed", k, r.result, snap)
    /\ ncalls' = ncalls + 1
    /\ UNCHANGED <<redis_client, limit, window, now>>
    /\ UNCHANGED <<nfaults, threadVars>>
    /\ UNCHANGED extVars

get_remaining_requests(k) ==
    /\ ncalls < MaxCalls
    /\ LET snap == Snapshot(k)
           r == IF redis_client
                THEN RedisGetRemaining(redis_db, k, now, limit, window)
                ELSE LocalGetRemaining(memory_limits, k, now, limit, window)
       IN  /\ IF redis_client
              THEN redis_db' = r.db /\ UNCHANGED memory_limits
              ELSE memory_limits' = r.m /\ UNCHANGED redis_db
           /\ last' = Called("get_remaining_requests", k, r.result, snap)
    /\ ncalls' = ncalls + 1
    /\ UNCHANGED <<redis_client, limit, window, now, hist>>
    /\ UNCHANGED <<nfaults, threadVars>>
    /\ UNCHANGED extVars

reset_limit(k) ==
    /\ ncalls < MaxCalls
    /\ LET snap == Snapshot(k)
           r == IF redis_client THEN RedisReset(redis_db, k)
                ELSE LocalReset(memory_limits, k)
       IN  /\ IF redis_client
              THEN redis_db' = r.db /\ UNCHANGED memory_limits
              ELSE memory_limits' = r.m /\ UNCHANGED redis_db
           /\ last' = Called("reset_limit", k, r.result, snap)
    /\ hist' = [hist EXCEPT ![k] = <<>>]
    /\ ncalls' = ncalls + 1
    /\ UNCHANGED <<redis_client, limit, window, now>>
    /\ UNCHANGED <<nfaults, threadVars>>
    /\ UNCHANGED extVars

\* expire(key, window) set at second s of the server clock fires at some
\* instant of second s + window: the key may go at any point of that second
ExpireKey(k) ==
    /\ redis_client
    /\ k \in DOMAIN redis_db
    /\ redis_db[k].expire_at <= now
    /\ redis_db' = [x \in DOMAIN redis_db \ {k} |-> redis_db[x]]
    /\ UNCHANGED <<redis_client, limit, window, now, memory_limits, hist, last, ncalls>>
    /\ UNCHANGED <<nfaults, threadVars>>
    /\ UNCHANGED extVars

\* one second passes; the keys whose TTL ran out during it are gone
Tick ==
    /\ now < MaxTime
    /\ now' = now + 1
    /\ redis_db' = Expired(redis_db, now)
    /\ UNCHANGED <<redis_client, limit, window, memory_limits, hist, last, ncalls>>
    /\ UNCHANGED <<nfaults, threadVars>>
    /\ UNCHANGED extVars

Next ==
    \/ \E k \in Keys : is_allowed(k)
    \/ \E k \in Keys : get_remaining_requests(k)
    \/ \E k \in Keys : reset_limit(k)
    \/ \E k \in Keys : ExpireKey(k)
    \/ Tick

Spec == Init /\ [][Next]_vars

\* ------------------------------------------- calls during which the store fails
\* errors the redis client raises out of execute() / delete()
StoreErrors == {"ConnectionError", "TimeoutError"}

\* `except Exception` catches every one of them
CaughtByExcept(e) == e \in StoreErrors

IsAllowedOnErrorMut == FALSE

\* is_allowed, except branch: return True
IsAllowedOnError == TRUE

\* get_remaining_requests, except branch: return limit
GetRemainingOnError(N) == N

\* reset_limit, except branch: return False
ResetOnError == FALSE

Failed(op, k, res, e, snap) ==
    [Called(op, k, res, snap) EXCEPT !.failed = TRUE, !.raised = ~CaughtByExcept(e)]

\* the server may have run the transaction before the reply was lost
IsAllowedFails(k, e, applied) ==
    /\ redis_client
    /\ ncalls < MaxCalls
    /\ nfaults < MaxFaults
    /\ nfaults' = nfaults + 1
    /\ LET snap == Snapshot(k)
           r == RedisIsAllowed(redis_db, k, now, now, limit, window)
           db == IF applied THEN r.db ELSE redis_db
       IN  /\ redis_db' = db
           /\ hist' = [hist EXCEPT ![k] =
                         Append(@, [t |-> now, ok |-> IsAllowedOnError,
                                    oldest |-> Oldest({x.score : x \in ZSetOf(db, k)})])]
           /\ last' = Failed("is_allowed", k, IsAllowedOnError, e, snap)
    /\ ncalls' = ncalls + 1
    /\ UNCHANGED <<redis_client, limit, window, now, memory_limits>>
    /\ UNCHANGED threadVars
    /\ UNCHANGED extVars

GetRemainingRequestsFails(k, e, applied) ==
    /\ redis_client
    /\ ncalls < MaxCalls
    /\ nfaults < MaxFaults
    /\ nfaults' = nfaults + 1
    /\ LET snap == Snapshot(k)
           r == RedisGetRemaining(redis_db, k, now, limit, window)
       IN  /\ redis_db' = IF applied THEN r.db ELSE redis_db
           /\ last' = Failed("get_remaining_requests", k, GetRemainingOnError(limit), e, snap)
    /\ ncalls' = ncalls + 1
    /\ UNCHANGED <<redis_client, limit, window, now, memory_limits, hist>>
    /\ UNCHANGED threadVars
    /\ UNCHANGED extVars

ResetLimitFails(k, e, applied) ==
    /\ redis_client
    /\ ncalls < MaxCalls
    /\ nfaults < MaxFaults
    /\ nfaults' = nfaults + 1
    /\ LET snap == Snapshot(k)
           r == RedisReset(redis_db, k)
       IN  /\ redis_db' = IF applied THEN r.db ELSE redis_db
           /\ last' = Failed("reset_limit", k, ResetOnError, e, snap)
    /\ hist' = IF applied THEN [hist EXCEPT ![k] = <<>>] ELSE hist
    /\ ncalls' = ncalls + 1
    /\ UNCHANGED <<redis_client, limit, window, now, memory_limits>>
    /\ UNCHANGED threadVars
    /\ UNCHANGED extVars

NextFault ==
    \/ Next
    \/ \E k \in Keys, e \in StoreErrors, applied \in BOOLEAN : IsAllowedFails(k, e, applied)
    \/ \E k \in Keys, e \in StoreErrors, applied \in BOOLEAN :
           GetRemainingRequestsFails(k, e, applied)
    \/ \E k \in Keys, e \in StoreErrors, applied \in BOOLEAN : ResetLimitFails(k, e, applied)

SpecFault == Init /\ [][NextFault]_vars

\* ------------------------------ concurrent callers of is_allowed on one key
\* current_time = int(time.time())
Start(p) ==
    /\ pc[p] = "idle"
    /\ t_calls[p] < MaxThreadCalls
    /\ t_calls' = [t_calls EXCEPT ![p] = @ + 1]
    /\ current_time' = [current_time EXCEPT ![p] = now]
    /\ pc' = [pc EXCEPT ![p] = IF redis_client THEN "execute" ELSE "check_key"]
    /\ UNCHANGED <<redis_client, limit, window, now, memory_limits, redis_db,
                   hist, last, ncalls, nfaults, t_new, admitted>>
    /\ UNCHANGED extVars

\* pipeline.execute(): the four commands run as one MULTI/EXEC transaction
Execute(p) ==
    /\ pc[p] = "execute"
    /\ LET r == RedisIsAllowed(redis_db, ConcKey, current_time[p], now, limit, window)
       IN  /\ redis_db' = r.db
           /\ admitted' = IF r.result THEN Append(admitted, current_time[p]) ELSE admitted
    /\ pc' = [pc EXCEPT ![p] = "idle"]
    /\ UNCHANGED <<redis_client, limit, window, now, memory_limits, hist, last,
                   ncalls, nfaults, current_time, t_new, t_calls>>
    /\ UNCHANGED extVars

\* if key not in self._memory_limits
CheckKey(p) ==
    /\ pc[p] = "check_key"
    /\ pc' = [pc EXCEPT ![p] =
                IF ConcKey \notin DOMAIN memory_limits THEN "init_key" ELSE "filter"]
    /\ UNCHANGED <<redis_client, limit, window, now, memory_limits, redis_db,
                   hist, last, ncalls, nfaults, current_time, t_new, t_calls, admitted>>
    /\ UNCHANGED extVars

\* self._memory_limits[key] = []
InitKey(p) ==
    /\ pc[p] = "init_key"
    /\ memory_limits' = SetItem(memory_limits, ConcKey, <<>>)
    /\ pc' = [pc EXCEPT ![p] = "filter"]
    /\ UNCHANGED <<redis_client, limit, window, now, redis_db, hist, last,
                   ncalls, nfaults, current_time, t_new, t_calls, admitted>>
    /\ UNCHANGED extVars

\* the list comprehension reads the shared list and builds a new one
FilterList(p) ==
    /\ pc[p] = "filter"
    /\ t_new' = [t_new EXCEPT ![p] = Filter(memory_limits[ConcKey], current_time[p] - window)]
    /\ pc' = [pc EXCEPT ![p] = "assign"]
    /\ UNCHANGED <<redis_client, limit, window, now, memory_limits, redis_db,
                   hist, last, ncalls, nfaults, current_time, t_calls, admitted>>
    /\ UNCHANGED extVars

\* self._memory_limits[key] = <the new list>
AssignList(p) ==
    /\ pc[p] = "assign"
    /\ memory_limits' = SetItem(memory_limits, ConcKey, t_new[p])
    /\ pc' = [pc EXCEPT ![p] = "check"]
    /\ UNCHANGED <<redis_client, limit, window, now, redis_db, hist, last,
                   ncalls, nfaults, current_time, t_new, t_calls, admitted>>
    /\ UNCHANGED extVars

\* if len(self._memory_limits[key]) < limit: ... else return False
CheckLimit(p) ==
    /\ pc[p] = "check"
    /\ pc' = [pc EXCEPT ![p] =
                IF Len(memory_limits[ConcKey]) < limit THEN "append" ELSE "idle"]
    /\ UNCHANGED <<redis_client, limit, window, now, memory_limits, redis_db,
                   hist, last, ncalls, nfaults, current_time, t_new, t_calls, admitted>>
    /\ UNCHANGED extVars

\* self._memory_limits[key].append(current_time); return True
AppendTime(p) ==
    /\ pc[p] = "append"
    /\ memory_limits' = SetItem(memory_limits, ConcKey,
                                Append(memory_limits[ConcKey], current_time[p]))
    /\ admitted' = Append(admitted, current_time[p])
    /\ pc' = [pc EXCEPT ![p] = "idle"]
    /\ UNCHANGED <<redis_client, limit, window, now, redis_db, hist, last,
                   ncalls, nfaults, current_time, t_new, t_calls>>
    /\ UNCHANGED extVars

NextConc ==
    \/ \E p \in Threads : Start(p)
    \/ \E p \in Threads : Execute(p)
    \/ \E p \in Threads : CheckKey(p)
    \/ \E p \in Threads : InitKey(p)
    \/ \E p \in Threads : FilterList(p)
    \/ \E p \in Threads : AssignList(p)
    \/ \E p \in Threads : CheckLimit(p)
    \/ \E p \in Threads : AppendTime(p)
    \/ ExpireKey(ConcKey)
    \/ Tick

SpecConc == Init /\ [][NextConc]_vars

\* ------------------------------------------- the operations of the Cache
\* the RateLimiter's own state and counters
limiterVars == <<redis_client, limit, window, memory_limits, hist, ncalls, nfaults>>

\* what the callers of the Cache keep fixed during a behaviour
callerVars == <<cache_redis_client, val, ttl_arg>>

\* the values the callers cache in one behaviour
Payloads == {val, HealthValue}

InitCacheWith(values) ==
    /\ cache_redis_client \in BOOLEAN
    /\ redis_client = cache_redis_client
    /\ limit = 1
    /\ window = 1
    /\ val \in values
    /\ ttl_arg \in TtlArgs
    /\ now = 0
    /\ memory_limits = <<>>
    /\ memory_cache = <<>>
    /\ redis_db = <<>>
    /\ hist = [k \in Keys |-> <<>>]
    /\ last = NoCall
    /\ ncalls = 0
    /\ nfaults = 0
    /\ pc = [p \in Threads |-> "idle"]
    /\ current_time = [p \in Threads |-> 0]
    /\ t_new = [p \in Threads |-> <<>>]
    /\ t_calls = [p \in Threads |-> 0]
    /\ admitted = <<>>
    /\ RaceIdle
    /\ AppIdle
    /\ BootIdle

\* the callers cache JSON values
InitCache == InitCacheWith(PyValues)

\* a caller passes a value that json.dumps refuses
InitCacheObj == InitCacheWith({NotJson})

CacheSnapshot(k) ==
    [preLive |-> EntryLive(k),
     preStored |-> EntryStored(k),
     preValue |-> StoredValue(k)]

CacheCalled(op, k, res, v, invoked, snap) ==
    [op |-> op, key |-> k, t |-> now, result |-> res, failed |-> FALSE,
     raised |-> FALSE, value |-> v, invoked |-> invoked,
     preLive |-> snap.preLive, preStored |-> snap.preStored,
     preValue |-> snap.preValue]

get(k) ==
    /\ LET r == CacheGet(memory_cache, redis_db, k, now)
       IN  /\ memory_cache' = r.m
           /\ redis_db' = r.db
           /\ last' = CacheCalled("get", k, r.result, PyNone, FALSE, CacheSnapshot(k))
    /\ UNCHANGED <<now, limiterVars, threadVars, callerVars, idleVars>>

set(k, v) ==
    /\ LET r == CacheSet(memory_cache, redis_db, k, v, ttl_arg, now)
       IN  /\ memory_cache' = r.m
           /\ redis_db' = r.db
           /\ last' = CacheCalled("set", k, r.result, v, FALSE, CacheSnapshot(k))
    /\ UNCHANGED <<now, limiterVars, threadVars, callerVars, idleVars>>

delete(k) ==
    /\ LET r == CacheDelete(memory_cache, redis_db, k, now)
       IN  /\ memory_cache' = r.m
           /\ redis_db' = r.db
           /\ last' = CacheCalled("delete", k, r.result, PyNone, FALSE, CacheSnapshot(k))
    /\ UNCHANGED <<now, limiterVars, threadVars, callerVars, idleVars>>

clear ==
    /\ LET r == CacheClear(memory_cache, redis_db)
           k == CHOOSE x \in CacheKeys : TRUE
       IN  /\ memory_cache' = r.m
           /\ redis_db' = r.db
           /\ last' = CacheCalled("clear", "", r.result, PyNone, FALSE, CacheSnapshot(k))
    /\ UNCHANGED <<now, limiterVars, threadVars, callerVars, idleVars>>

\* get_or_set(k, func, ttl) with a func that returns v
get_or_set(k, v) ==
    /\ LET r == CacheGetOrSet(memory_cache, redis_db, k, v, ttl_arg, now)
       IN  /\ memory_cache' = r.m
           /\ redis_db' = r.db
           /\ last' = CacheCalled("get_or_set", k, r.result, v, r.invoked, CacheSnapshot(k))
    /\ UNCHANGED <<now, limiterVars, threadVars, callerVars, idleVars>>

\* time passes: one second, or all but one second of the default ttl; the
\* shared store drops a string key at the instant its ttl runs out
Sleep(d) ==
    /\ \/ d = 1 /\ (now < MaxTtl \/ now = DEFAULT_TTL - 1)
       \/ d = DEFAULT_TTL - 1 /\ now = 0
    /\ now' = now + d
    /\ redis_db' = Expired(redis_db, now + d)
    /\ UNCHANGED <<memory_cache, last, limiterVars, threadVars, callerVars, idleVars>>

NextCache ==
    \/ \E k \in CacheKeys : get(k)
    \/ \E k \in CacheKeys, v \in Payloads : set(k, v)
    \/ \E k \in CacheKeys : delete(k)
    \/ clear
    \/ \E k \in CacheKeys, v \in Payloads : get_or_set(k, v)
    \/ \E d \in {1, DEFAULT_TTL - 1} : Sleep(d)

SpecCache == InitCache /\ [][NextCache]_vars

SpecCacheObj == InitCacheObj /\ [][NextCache]_vars

\* ------------------------------- Cache calls during which the store fails
GetOnErrorMut == HealthValue

\* get, except branch: falls through to return None
GetOnError == PyNone

\* delete, except branch: falls through to return False
DeleteOnError == FALSE

\* clear, except branch: return False
ClearOnError == FALSE

SetExceptMut(mc, k, v, ttl, t) == LocalCacheSet(mc, k, v, ttl, t).m

\* set, except branch: logs and returns; the local dict is left as it is
SetExcept(mc, k, v, ttl, t) == mc

CacheFailed(op, k, res, v, e, snap) ==
    [CacheCalled(op, k, res, v, FALSE, snap)
        EXCEPT !.failed = TRUE, !.raised = ~CaughtByExcept(e)]

\* only the shared store can fail
InitCacheFault == InitCache /\ cache_redis_client

CacheGetFails(k) ==
    /\ cache_redis_client
    /\ nfaults < MaxFaults
    /\ nfaults' = nfaults + 1
    /\ \E e \in StoreErrors :
           last' = CacheFailed("get", k, GetOnError, PyNone, e, CacheSnapshot(k))
    /\ UNCHANGED <<now, redis_db, memory_cache, threadVars, callerVars>>
    /\ UNCHANGED <<redis_client, limit, window, memory_limits, hist, ncalls, idleVars>>

\* the server may have run the command before the reply was lost
CacheSetFails(k, v, applied) ==
    /\ cache_redis_client
    /\ nfaults < MaxFaults
    /\ nfaults' = nfaults + 1
    /\ LET r == RedisSetEx(redis_db, k, TtlOrDefault(ttl_arg), Dumps(v), now)
       IN  redis_db' = IF applied /\ Dumps(v) # TypeError THEN r.db ELSE redis_db
    /\ memory_cache' = SetExcept(memory_cache, k, v, ttl_arg, now)
    /\ \E e \in StoreErrors :
           last' = CacheFailed("set", k, SetOnError, v, e, CacheSnapshot(k))
    /\ UNCHANGED <<now, threadVars, callerVars>>
    /\ UNCHANGED <<redis_client, limit, window, memory_limits, hist, ncalls, idleVars>>

CacheDeleteFails(k, applied) ==
    /\ cache_redis_client
    /\ nfaults < MaxFaults
    /\ nfaults' = nfaults + 1
    /\ redis_db' = IF applied THEN RedisCacheDelete(redis_db, k, now).db ELSE redis_db
    /\ \E e \in StoreErrors :
           last' = CacheFailed("delete", k, DeleteOnError, PyNone, e, CacheSnapshot(k))
    /\ UNCHANGED <<now, memory_cache, threadVars, callerVars>>
    /\ UNCHANGED <<redis_client, limit, window, memory_limits, hist, ncalls, idleVars>>

CacheClearFails(applied) ==
    /\ cache_redis_client
    /\ nfaults < MaxFaults
    /\ nfaults' = nfaults + 1
    /\ redis_db' = IF applied THEN RedisFlushDb(redis_db).db ELSE redis_db
    /\ \E e \in StoreErrors :
           last' = CacheFailed("clear", "", ClearOnError, PyNone, e,
                               CacheSnapshot(CHOOSE x \in CacheKeys : TRUE))
    /\ UNCHANGED <<now, memory_cache, threadVars, callerVars>>
    /\ UNCHANGED <<redis_client, limit, window, memory_limits, hist, ncalls, idleVars>>

NextCacheFault ==
    \/ \E k \in CacheKeys : get(k)
    \/ \E k \in CacheKeys, v \in Payloads : set(k, v)
    \/ \E k \in CacheKeys : delete(k)
    \/ clear
    \/ Sleep(1)
    \/ \E k \in CacheKeys : CacheGetFails(k)
    \/ \E k \in CacheKeys, v \in Payloads, applied \in BOOLEAN : CacheSetFails(k, v, applied)
    \/ \E k \in CacheKeys, applied \in BOOLEAN : CacheDeleteFails(k, applied)
    \/ \E applied \in BOOLEAN : CacheClearFails(applied)

SpecCacheFault == InitCacheFault /\ [][NextCacheFault]_vars

\* --------------------------------------- threads that race on get_or_set
\* the key the threads ask for
RaceKey == "user:profile:42"

\* what the producer each thread passes returns
Producer(p) == IF p = "T1" THEN val ELSE HealthValue

\* value = self.get(key); if value is not None: return value
GosGet(p) ==
    /\ pc[p] = "idle"
    /\ LET r == CacheGet(memory_cache, redis_db, RaceKey, now)
       IN  /\ memory_cache' = r.m
           /\ redis_db' = r.db
           /\ gos_value' = [gos_value EXCEPT ![p] = r.result]
           /\ IF r.result # PyNone
              THEN /\ pc' = [pc EXCEPT ![p] = "done"]
                   /\ returned' = [returned EXCEPT ![p] = r.result]
              ELSE /\ pc' = [pc EXCEPT ![p] = "func"]
                   /\ UNCHANGED returned
    /\ UNCHANGED <<now, last, limiterVars, callerVars, func_calls, writes>>
    /\ UNCHANGED <<current_time, t_new, t_calls, admitted, bootVars, appVars>>

\* value = func()
GosFunc(p) ==
    /\ pc[p] = "func"
    /\ gos_value' = [gos_value EXCEPT ![p] = Producer(p)]
    /\ func_calls' = [func_calls EXCEPT ![p] = @ + 1]
    /\ pc' = [pc EXCEPT ![p] = "set"]
    /\ UNCHANGED <<now, last, limiterVars, callerVars, returned, writes>>
    /\ UNCHANGED <<memory_cache, redis_db, current_time, t_new, t_calls, admitted, bootVars,
                   appVars>>

\* self.set(key, value, ttl); return value
GosSet(p) ==
    /\ pc[p] = "set"
    /\ LET r == CacheSet(memory_cache, redis_db, RaceKey, gos_value[p], ttl_arg, now)
       IN  /\ memory_cache' = r.m
           /\ redis_db' = r.db
           /\ writes' = IF r.result
                        THEN Append(writes, [p |-> p, v |-> gos_value[p], t |-> now])
                        ELSE writes
    /\ returned' = [returned EXCEPT ![p] = gos_value[p]]
    /\ pc' = [pc EXCEPT ![p] = "done"]
    /\ UNCHANGED <<now, last, limiterVars, callerVars, gos_value, func_calls>>
    /\ UNCHANGED <<current_time, t_new, t_calls, admitted, bootVars, appVars>>

NextRace ==
    \/ \E p \in Threads : GosGet(p)
    \/ \E p \in Threads : GosFunc(p)
    \/ \E p \in Threads : GosSet(p)
    \/ Sleep(1)

SpecRace == InitCache /\ [][NextRace]_vars

\* ------------------------------ both components, with and without failures
InitStore ==
    /\ redis_client \in BOOLEAN
    /\ cache_redis_client \in BOOLEAN
    /\ limit = 1
    /\ window = 1
    /\ val = HealthValue
    /\ ttl_arg \in {NoTtl, Ttl(1)}
    /\ now = 0
    /\ memory_limits = <<>>
    /\ memory_cache = <<>>
    /\ redis_db = <<>>
    /\ hist = [k \in Keys |-> <<>>]
    /\ last = NoCall
    /\ ncalls = 0
    /\ nfaults = 0
    /\ pc = [p \in Threads |-> "idle"]
    /\ current_time = [p \in Threads |-> 0]
    /\ t_new = [p \in Threads |-> <<>>]
    /\ t_calls = [p \in Threads |-> 0]
    /\ admitted = <<>>
    /\ RaceIdle
    /\ AppIdle
    /\ BootIdle

LimiterOps == {"is_allowed", "get_remaining_requests", "reset_limit"}

CacheOps == {"get", "set", "delete", "clear", "get_or_set"}

\* the two components are separate objects: a behaviour follows one of them
NextStore ==
    \/ last.op \notin CacheOps /\ NextFault
    \/ last.op \notin LimiterOps /\ NextCacheFault

SpecStore == InitStore /\ [][NextStore]_vars

\* ------------------------------------------ get_cache / get_rate_limiter
\* everything the accessors leave alone
componentVars == <<redis_client, limit, window, now, memory_limits, redis_db, hist,
                   last, ncalls, nfaults, current_time, t_new, t_calls, admitted,
                   cacheVars, raceVars, appVars>>

InitBoot ==
    /\ REDIS_AVAILABLE \in BOOLEAN
    /\ settings_redis_url \in RedisUrls
    /\ instance = [c \in Components |-> 0]
    /\ built = [c \in Components |-> 0]
    /\ construction = NoConstruction
    /\ handed = {}
    /\ acc = [p \in Threads |-> NoAccess]
    /\ redis_client = FALSE
    /\ limit = 1
    /\ window = 1
    /\ now = 0
    /\ memory_limits = <<>>
    /\ redis_db = <<>>
    /\ hist = [k \in Keys |-> <<>>]
    /\ last = NoCall
    /\ ncalls = 0
    /\ nfaults = 0
    /\ pc = [p \in Threads |-> "idle"]
    /\ current_time = [p \in Threads |-> 0]
    /\ t_new = [p \in Threads |-> <<>>]
    /\ t_calls = [p \in Threads |-> 0]
    /\ admitted = <<>>
    /\ CacheIdle
    /\ RaceIdle
    /\ AppIdle

\* if _instance is None:
CheckInstance(p, c) ==
    /\ pc[p] = "idle"
    /\ acc[p].calls < MaxGetCalls
    /\ acc' = [acc EXCEPT ![p].comp = c]
    /\ pc' = [pc EXCEPT ![p] = IF instance[c] = 0 THEN "construct" ELSE "return"]
    /\ UNCHANGED <<REDIS_AVAILABLE, settings_redis_url, instance, built, construction, handed>>
    /\ UNCHANGED componentVars

\* Cache() / RateLimiter(): an error raised by __init__ ends the accessor call
Construct(p, ping_ok) ==
    /\ pc[p] = "construct"
    /\ LET c == acc[p].comp
           r == NewComponent(REDIS_AVAILABLE, settings_redis_url, ping_ok)
       IN  /\ construction' = [done |-> TRUE, comp |-> c, raised |-> r.raised,
                               client |-> r.client, ping_ok |-> ping_ok]
           /\ IF r.raised
              THEN /\ pc' = [pc EXCEPT ![p] = "idle"]
                   /\ acc' = [acc EXCEPT ![p].calls = @ + 1]
                   /\ UNCHANGED built
              ELSE /\ pc' = [pc EXCEPT ![p] = "assign"]
                   /\ built' = [built EXCEPT ![c] = @ + 1]
                   /\ acc' = [acc EXCEPT ![p].new = built[c] + 1]
    /\ UNCHANGED <<REDIS_AVAILABLE, settings_redis_url, instance, handed>>
    /\ UNCHANGED componentVars

\* _instance = <the new object>
AssignInstance(p) ==
    /\ pc[p] = "assign"
    /\ instance' = [instance EXCEPT ![acc[p].comp] = acc[p].new]
    /\ pc' = [pc EXCEPT ![p] = "return"]
    /\ UNCHANGED <<REDIS_AVAILABLE, settings_redis_url, built, construction, handed, acc>>
    /\ UNCHANGED componentVars

\* return _instance
ReturnInstance(p) ==
    /\ pc[p] = "return"
    /\ handed' = handed \cup {[comp |-> acc[p].comp, id |-> instance[acc[p].comp]]}
    /\ acc' = [acc EXCEPT ![p].calls = @ + 1]
    /\ pc' = [pc EXCEPT ![p] = "idle"]
    /\ UNCHANGED <<REDIS_AVAILABLE, settings_redis_url, instance, built, construction>>
    /\ UNCHANGED componentVars

NextBoot ==
    \/ \E p \in Threads, c \in Components : CheckInstance(p, c)
    \/ \E p \in Threads, ping_ok \in BOOLEAN : Construct(p, ping_ok)
    \/ \E p \in Threads : AssignInstance(p)
    \/ \E p \in Threads : ReturnInstance(p)

SpecBoot == InitBoot /\ [][NextBoot]_vars

\* -------------------- one RateLimiter per store, given the same calls
\* memory_limits belongs to a limiter on the local store, redis_db to a
\* second limiter on the shared store; every call goes to both
InitTwin == Init /\ redis_client

TwinCalled(op, k, local, shared) ==
    [op |-> op, key |-> k, t |-> now, local |-> local, shared |-> shared]

TwinIsAllowed(k) ==
    /\ ncalls < MaxCalls
    /\ LET l == LocalIsAllowed(memory_limits, k, now, limit, window)
           r == RedisIsAllowed(redis_db, k, now, now, limit, window)
       IN  /\ memory_limits' = l.m
           /\ redis_db' = r.db
           /\ last' = TwinCalled("is_allowed", k, l.result, r.result)
    /\ ncalls' = ncalls + 1
    /\ UNCHANGED <<redis_client, limit, window, now, hist, nfaults, threadVars>>
    /\ UNCHANGED extVars

TwinGetRemainingRequests(k) ==
    /\ ncalls < MaxCalls
    /\ LET l == LocalGetRemaining(memory_limits, k, now, limit, window)
           r == RedisGetRemaining(redis_db, k, now, limit, window)
       IN  /\ memory_limits' = l.m
           /\ redis_db' = r.db
           /\ last' = TwinCalled("get_remaining_requests", k, l.result, r.result)
    /\ ncalls' = ncalls + 1
    /\ UNCHANGED <<redis_client, limit, window, now, hist, nfaults, threadVars>>
    /\ UNCHANGED extVars

TwinResetLimit(k) ==
    /\ ncalls < MaxCalls
    /\ LET l == LocalReset(memory_limits, k)
           r == RedisReset(redis_db, k)
       IN  /\ memory_limits' = l.m
           /\ redis_db' = r.db
           /\ last' = TwinCalled("reset_limit", k, l.result, r.result)
    /\ ncalls' = ncalls + 1
    /\ UNCHANGED <<redis_client, limit, window, now, hist, nfaults, threadVars>>
    /\ UNCHANGED extVars

NextTwin ==
    \/ \E k \in Keys : TwinIsAllowed(k)
    \/ \E k \in Keys : TwinGetRemainingRequests(k)
    \/ \E k \in Keys : TwinResetLimit(k)
    \/ \E k \in Keys : ExpireKey(k)
    \/ Tick

SpecTwin == InitTwin /\ [][NextTwin]_vars

\* ------------------- both components in use, on the same kind of store
\* with a URL configured both constructors connect to the same database
InitShared ==
    /\ InitStore
    /\ redis_client = cache_redis_client
    /\ ttl_arg = NoTtl

NextShared ==
    \/ \E k \in Keys : is_allowed(k)
    \/ \E k \in Keys : get_remaining_requests(k)
    \/ \E k \in Keys : reset_limit(k)
    \/ \E k \in CacheKeys : get(k)
    \/ \E k \in CacheKeys, v \in Payloads : set(k, v)
    \/ \E k \in CacheKeys : delete(k)
    \/ clear
    \/ Tick

SpecShared == InitShared /\ [][NextShared]_vars

\* =================================================================== claims
\* calls of is_allowed on k that returned true with call time in (t - W, t]
AdmittedIn(k, t) ==
    Cardinality({i \in 1..Len(hist[k]) :
                    hist[k][i].ok /\ t - window < hist[k][i].t /\ hist[k][i].t <= t})

\* C1: starting from a key with no recorded requests, the first N calls of
\* is_allowed made within one window all return true and the (N+1)th call
\* within that window returns false, with either backing store.
C1_FirstNThenDenied ==
    \A k \in Keys : \A i \in 1..Len(hist[k]) :
        hist[k][i].t - hist[k][1].t < window =>
            /\ (i <= limit => hist[k][i].ok)
            /\ (i = limit + 1 => ~hist[k][i].ok)

\* C2: in every trailing window of W seconds the number of is_allowed calls
\* on one key that returned true never exceeds N.
C2_SlidingWindowBound ==
    \A k \in Keys : \A t \in 0..MaxTime : AdmittedIn(k, t) <= limit

\* C3: once a key was denied, the next is_allowed made at least W seconds
\* after the oldest timestamp recorded at that denial returns true.
C3_Recovery ==
    \A k \in Keys : \A i \in 2..Len(hist[k]) :
        (~hist[k][i-1].ok /\ hist[k][i].t >= hist[k][i-1].oldest + window)
            => hist[k][i].ok

\* C4: get_remaining_requests returns N on a key without calls, returns N
\* minus the number of admitted calls still inside the window right after an
\* admitted call, and is never negative.
C4_RemainingExact ==
    /\ \A k \in Keys : hist[k] = <<>> => RemainingNow(k) = limit
    /\ \A k \in Keys : RemainingNow(k) >= 0
    /\ (last.op = "is_allowed" /\ last.t = now /\ last.result = TRUE)
          => RemainingNow(last.key) = limit - AdmittedIn(last.key, now)

\* C5: right after reset_limit(k) no timestamp is recorded under k, the full
\* quota is available, is_allowed would return true, and the call returned
\* true exactly when it removed at least one recorded timestamp.
C5_ResetRestoresQuota ==
    (last.op = "reset_limit" /\ last.t = now) =>
        /\ RecordedCount(last.key) = 0
        /\ RemainingNow(last.key) = limit
        /\ WouldAllow(last.key)
        /\ (last.result <=> last.pre # {})

C5_Witness ==
    /\ last.op = "reset_limit"
    /\ last.t = now
    /\ last.exhausted
    /\ ~last.preAllow[last.key]
    /\ last.result = TRUE

\* C6: an is_allowed call that returns false records nothing: the key holds
\* exactly the timestamps it held before that are still inside the window.
C6_DeniedRecordsNothing ==
    (last.op = "is_allowed" /\ last.t = now /\ last.result = FALSE) =>
        /\ RecordedSet(last.key) = {ts \in last.pre : ts > now - window}
        /\ RecordedCount(last.key) = last.preLive

\* C7: get_remaining_requests inserts no timestamp and changes neither what
\* is_allowed nor what get_remaining_requests returns at the same clock time,
\* for any key.
C7_RemainingIsReadOnly ==
    (last.op = "get_remaining_requests" /\ last.t = now) =>
        /\ RecordedSet(last.key) \subseteq last.pre
        /\ \A k \in Keys : WouldAllow(k) = last.preAllow[k]
        /\ \A k \in Keys : RemainingNow(k) = last.preRemaining[k]

\* the call trimmed stale entries of the shared store and still changed no answer
C7_Witness ==
    /\ last.op = "get_remaining_requests"
    /\ last.t = now
    /\ redis_client
    /\ last.pre # {}
    /\ RecordedSet(last.key) # last.pre

\* concurrent calls that returned true with call time in (t - W, t]
ConcAdmittedIn(t) ==
    Cardinality({i \in 1..Len(admitted) : t - window < admitted[i] /\ admitted[i] <= t})

\* C8: with the shared store, under every interleaving of concurrent
\* is_allowed calls on one key, the calls admitted in one window never
\* exceed limit.
C8_SharedNoDoubleAdmit ==
    redis_client => \A t \in 0..MaxTime : ConcAdmittedIn(t) <= limit

\* C9: with the local store, under every interleaving of the steps of
\* concurrent is_allowed calls on one key, at most limit calls are admitted in
\* one window and the timestamp of every admitted call that is still inside
\* the window stays recorded.
C9_LocalThreadSafe ==
    ~redis_client =>
        /\ \A t \in 0..MaxTime : ConcAdmittedIn(t) <= limit
        /\ \A ts \in SeqToSet(admitted) :
              ts > now - window =>
                  CountIn(ListOf(memory_limits, ConcKey), ts - 1, ts)
                      >= CountIn(admitted, ts - 1, ts)

\* C10: a call during which the backing store fails raises nothing and returns
\* the fail-open default: true for is_allowed, limit for
\* get_remaining_requests, false for reset_limit.
C10_FailOpen ==
    last.failed =>
        /\ ~last.raised
        /\ (last.op = "is_allowed" => last.result = TRUE)
        /\ (last.op = "get_remaining_requests" => last.result = limit)
        /\ (last.op = "reset_limit" => last.result = FALSE)

\* the store failed on a call that would otherwise have been denied
C10_Witness ==
    /\ last.failed
    /\ last.op = "is_allowed"
    /\ ~last.preAllow[last.key]
    /\ last.result = TRUE

\* ------------------------------------------------------ claims on the Cache
\* C11: a Cache call during which the backing store fails raises nothing to
\* its caller: get returns absent, set, delete and clear return false.
C11_CacheFailSoft ==
    (last.op \in CacheOps /\ last.failed) =>
        /\ ~last.raised
        /\ (last.op = "get" => last.result = PyNone)
        /\ (last.op = "set" => last.result = FALSE)
        /\ (last.op = "delete" => last.result = FALSE)
        /\ (last.op = "clear" => last.result = FALSE)

\* the store failed on a get of a key that holds a live value
C11_Witness ==
    /\ last.op = "get"
    /\ last.failed
    /\ last.preLive
    /\ last.preValue # PyNone
    /\ last.result = PyNone

\* the number of seconds the ttl argument asks for: ttl itself, 3600 when omitted
AskedTtl == IF ttl_arg.given THEN ttl_arg.secs ELSE DEFAULT_TTL

\* the last operation was a set and no operation has followed it
AfterSet == last.op = "set"

C13_ExpiresAfterTtl ==
    (AfterSet /\ ttl_arg.given /\ now >= last.t + ttl_arg.secs)
        => WouldGet(last.key) = PyNone

\* C14: a set without a ttl keeps the entry for 3600 seconds: with either
\* store get(k) returns v before 3600 seconds have elapsed and absent after.
C14_DefaultTtl ==
    (AfterSet /\ ~ttl_arg.given)
        => /\ now < last.t + DEFAULT_TTL => WouldGet(last.key) = last.value
           /\ now >= last.t + DEFAULT_TTL => WouldGet(last.key) = PyNone

\* C15: delete(k) on a key holding a live entry returns true and a get(k)
\* after it returns absent; delete(k) on a key with no entry (never set,
\* deleted or cleared) returns false and leaves both stores as they were.
C15_Delete ==
    [][\A k \in CacheKeys :
          (last'.op = "delete" /\ last'.key = k /\ delete(k)) =>
              /\ EntryLive(k) => (last'.result = TRUE /\ WouldGet(k)' = PyNone)
              /\ ~EntryStored(k) => /\ last'.result = FALSE
                                    /\ memory_cache' = memory_cache
                                    /\ redis_db' = redis_db]_vars

\* a live entry with a value has just been deleted from the local store
C15_Witness ==
    /\ last.op = "delete"
    /\ ~cache_redis_client
    /\ last.preLive
    /\ last.preValue # PyNone
    /\ last.result = TRUE
    /\ last.t = now
    /\ WouldGet(last.key) = PyNone

\* C16: without concurrent callers, get_or_set(k, producer, ttl) returns the
\* cached value without invoking producer when k holds one; otherwise it
\* invokes producer once, stores and returns its result, and a second
\* get_or_set on k before the ttl elapses does not invoke producer again,
\* whatever JSON value producer returned.
C16_GetOrSetOnce ==
    last.op = "get_or_set"
        => /\ last.t = now
                => IF last.preLive
                   THEN last.result = last.preValue /\ ~last.invoked
                   ELSE last.result = last.value /\ last.invoked
           /\ now < last.t + AskedTtl
                => ~CacheGetOrSet(memory_cache, redis_db, last.key,
                                  last.value, ttl_arg, now).invoked

\* the values produced so far by the producers of the racing threads
Produced == {Producer(q) : q \in {x \in Threads : func_calls[x] >= 1}}

AllDone == \A p \in Threads : pc[p] = "done"

\* C17: when several callers run get_or_set on the same missing key at once,
\* each invokes its producer at most once and returns a value some producer
\* of that key produced; once all have finished, the cache holds under the
\* key the value of the last set, which is one of the produced values, for
\* as long as its ttl has not elapsed.
C17_RaceLastWriteWins ==
    /\ \A p \in Threads : func_calls[p] <= 1
    /\ \A p \in Threads : pc[p] = "done" => returned[p] \in Produced
    /\ (AllDone /\ AskedTtl > 0) => writes # <<>>
    /\ (AllDone /\ writes # <<>> /\ now < writes[Len(writes)].t + AskedTtl)
           => /\ EntryLive(RaceKey)
              /\ StoredValue(RaceKey) = writes[Len(writes)].v
              /\ writes[Len(writes)].v \in Produced

\* both threads missed, both produced, and the second write replaced the first
C17_Witness ==
    /\ AllDone
    /\ \A p \in Threads : func_calls[p] = 1
    /\ Len(writes) = 2
    /\ writes[1].v # writes[2].v
    /\ now < writes[2].t + AskedTtl
    /\ StoredValue(RaceKey) = writes[2].v
    /\ returned["T1"] # returned["T2"]

\* C18: the store chosen at construction is used for the whole lifetime:
\* whatever is called, store failures included, neither component switches
\* store, and a component on the shared store never writes to its local map.
C18_StoreNeverSwitches ==
    [][/\ redis_client' = redis_client
       /\ cache_redis_client' = cache_redis_client
       /\ redis_client => memory_limits' = memory_limits
       /\ cache_redis_client => memory_cache' = memory_cache
      ]_<<redis_client, cache_redis_client, memory_limits, memory_cache>>

\* a set on the shared store has just failed and the local dict is still empty
C18_Witness ==
    /\ cache_redis_client
    /\ last.op = "set"
    /\ last.failed
    /\ memory_cache = <<>>

\* ------------------------------------------- claims on construction
\* C19: constructing a Cache or a RateLimiter never raises; the component
\* uses the shared store if a URL is configured and the probe succeeds, and
\* the local store if no URL is configured, the client library is missing or
\* the probe fails.
C19_ConstructionNeverRaises ==
    construction.done =>
        /\ ~construction.raised
        /\ construction.client =
               (/\ REDIS_AVAILABLE
                /\ settings_redis_url \notin {Undeclared, ""}
                /\ construction.ping_ok)

\* C20: every call of get_cache() returns the same Cache and every call of
\* get_rate_limiter() the same RateLimiter, constructed at most once, also
\* when the first calls come from several threads at once.
C20_Singleton ==
    /\ \A c \in Components : built[c] <= 1
    /\ \A g, h \in handed : g.comp = h.comp => g.id = h.id

\* ------------------------------------------- further claims on the Cache
\* what get(k) returned before the last call
GetBefore == IF last.preLive THEN last.preValue ELSE PyNone

\* C21: with either store, set(k, v, ttl) with a v that is not
\* JSON-serializable returns false, raises nothing and leaves the cache as it
\* was: a get(k) after it returns what it returned before.
C21_UnserializableRejected ==
    (last.op = "set" /\ last.t = now /\ ~JsonSerializable(last.value))
        => /\ last.result = FALSE
           /\ ~last.raised
           /\ WouldGet(last.key) = GetBefore

\* the local entry under k is past its expiry
LocalExpired(k) ==
    /\ k \in DOMAIN memory_cache
    /\ memory_cache[k].has_expiry
    /\ now >= memory_cache[k].expiry

\* C24: in the local store an entry past its expiry reads as absent on the
\* next get(k) and that get removes it from the map; apart from delete(k) and
\* clear() nothing else removes an entry: not the passing of time, not an
\* operation on another key, and get never removes an entry without expiry.
C24_LazyExpiry ==
    /\ []((/\ ~cache_redis_client
           /\ last.op = "get"
           /\ last.t = now
           /\ last.preStored
           /\ ~last.preLive)
              => (last.result = PyNone /\ last.key \notin DOMAIN memory_cache))
    /\ [][\A k \in DOMAIN memory_cache :
              k \notin DOMAIN memory_cache' =>
                  \/ last'.op = "get" /\ last'.key = k /\ get(k) /\ LocalExpired(k)
                  \/ last'.op = "delete" /\ last'.key = k /\ delete(k)
                  \/ last'.op = "clear" /\ clear]_memory_cache

\* a get has just dropped an expired entry while an entry of the other key,
\* expired as well, is still in the map
C24_Witness ==
    /\ ~cache_redis_client
    /\ last.op = "get"
    /\ last.t = now
    /\ last.preStored
    /\ ~last.preLive
    /\ last.result = PyNone
    /\ last.key \notin DOMAIN memory_cache
    /\ \E k \in CacheKeys : LocalExpired(k)

\* C26: delete(k) on a local entry whose ttl has elapsed and that has not been
\* read since returns false, as the shared store does for an expired key.
C26_DeleteExpired ==
    (last.op = "delete" /\ last.t = now /\ last.preStored /\ ~last.preLive)
        => last.result = FALSE

\* ------------------------------------- further claims on the RateLimiter
\* the timestamps recorded under k, one entry per list element / set member
ClosedCount(k) ==
    IF redis_client
    THEN Cardinality({e \in ZSetOf(redis_db, k) :
                          now - window <= e.score /\ e.score <= now})
    ELSE Cardinality({i \in 1..Len(ListOf(memory_limits, k)) :
                          /\ now - window <= ListOf(memory_limits, k)[i]
                          /\ ListOf(memory_limits, k)[i] <= now})

\* C25 as stated: the entries counted at time now are the recorded timestamps
\* t with now - window <= t <= now, so a request recorded exactly window
\* seconds ago still counts against the limit.
C25_WindowClosed ==
    \A k \in Keys : RemainingNow(k) = Max(0, limit - ClosedCount(k))

\* what is_allowed adds to the count before it compares: the shared-store
\* branch counts the call itself, one member per clock second
OwnEntry(k) ==
    IF redis_client /\ now \notin RecordedSet(k) THEN 1 ELSE 0

\* C25, amended: the entries counted by is_allowed and get_remaining_requests
\* at time now are exactly the recorded timestamps t with
\* now - window < t <= now; a request recorded exactly window seconds ago is
\* outside the window and no longer counts, with either store.
C25_WindowHalfOpen ==
    \A k \in Keys :
        /\ RemainingNow(k) = Max(0, limit - LiveCount(k))
        /\ WouldAllow(k) = IF redis_client
                           THEN LiveCount(k) + OwnEntry(k) <= limit
                           ELSE LiveCount(k) < limit

\* a timestamp recorded exactly window seconds ago is still stored and the
\* full quota is available again
C25_Witness ==
    \E k \in Keys :
        /\ (now - window) \in RecordedSet(k)
        /\ LiveCount(k) = 0
        /\ RemainingNow(k) = limit
        /\ WouldAllow(k)

\* what the store in use holds under k
EntriesOf(k) ==
    IF redis_client THEN ZSetOf(redis_db, k) ELSE ListOf(memory_limits, k)

\* C28: a call of is_allowed, get_remaining_requests or reset_limit on one
\* key leaves the recorded timestamps, the admission result and the remaining
\* count of every other key as they were.
C28_PerKeyIsolation ==
    [][ncalls' = ncalls + 1 =>
           \A k2 \in Keys \ {last'.key} :
               /\ EntriesOf(k2)' = EntriesOf(k2)
               /\ WouldAllow(k2)' = WouldAllow(k2)
               /\ RemainingNow(k2)' = RemainingNow(k2)]_ncalls

\* a key was reset on the shared store while the other key holds timestamps
C28_Witness ==
    /\ redis_client
    /\ last.op = "reset_limit"
    /\ last.t = now
    /\ last.result = TRUE
    /\ \E k2 \in Keys \ {last.key} : RecordedCount(k2) > 0

\* C30: given the same error-free sequence of is_allowed,
\* get_remaining_requests and reset_limit calls and clock advances, the
\* limiter on the local store and the limiter on the shared store return the
\* same result for every call.
C30_StoresAgree ==
    last.op \in LimiterOps => last.local = last.shared

\* the step is a call of a Cache operation
CacheStep ==
    \/ last'.op = "get" /\ \E k \in CacheKeys : get(k)
    \/ last'.op = "set" /\ \E k \in CacheKeys, v \in Payloads : set(k, v)
    \/ last'.op = "delete" /\ \E k \in CacheKeys : delete(k)
    \/ last'.op = "clear" /\ clear

\* C29: no Cache operation, clear() included, changes the timestamps recorded
\* under a rate-limit key, nor what get_remaining_requests and is_allowed
\* return for it, with both components on the local store and with both on
\* the same shared store.
C29_CacheLeavesLimiterAlone ==
    [][CacheStep =>
           \A k \in Keys :
               /\ EntriesOf(k)' = EntriesOf(k)
               /\ RemainingNow(k)' = RemainingNow(k)
               /\ WouldAllow(k)' = WouldAllow(k)]_<<redis_db, memory_limits>>

\* ------------------------------------------------------ watchlist endpoints
\* the users and the anime the requests are about
Users == {1, 2}
Animes == {21, 22}
WatchStatuses == {"plan_to_watch", "watching"}

HTTP_201_CREATED == 201
HTTP_400_BAD_REQUEST == 400
HTTP_404_NOT_FOUND == 404
HTTP_409_CONFLICT == 409
HTTP_500_INTERNAL_SERVER_ERROR == 500

\* a message, as the sequence of its words
RouterDuplicateDetail == <<"Anime", "already", "in", "watchlist">>

\* f"Anime with ID {anime_id} is already in your watchlist"
DuplicateWatchlistItemMessage(anime_id) ==
    <<"Anime", "with", "ID", ToString(anime_id), "is", "already", "in", "your",
      "watchlist">>

IntegrityErrorMessage == <<"UNIQUE", "constraint", "failed">>

\* f"Failed to add anime to watchlist: {str(e)}"
DatabaseErrorMessage ==
    <<"Failed", "to", "add", "anime", "to", "watchlist:">> \o IntegrityErrorMessage

\* `phrase in message`
Contains(message, phrase) ==
    \E i \in 0..(Len(message) - Len(phrase)) :
        SubSeq(message, i + 1, i + Len(phrase)) = phrase

\* select(WatchlistItem).where(user_id == u, anime_id == a).first() is not None
HasItem(items, u, a) == \E x \in items : x.user_id = u /\ x.anime_id = a

\* Index("ix_watchlist_user_anime", "user_id", "anime_id", unique=True): the
\* table refuses a row whose (user_id, anime_id) it already holds
UniqueIndexRefuses(items, u, a) == HasItem(items, u, a)

\* db.add(item); db.commit(): the rows afterwards, and whether the commit
\* raised IntegrityError
InsertItem(items, id, u, a, st) ==
    IF UniqueIndexRefuses(items, u, a)
    THEN [items |-> items, raised |-> TRUE]
    ELSE [items |-> items \cup {[id |-> id, user_id |-> u, anime_id |-> a,
                                 status |-> st]},
          raised |-> FALSE]

Response(op, code, message, dup, unchanged) ==
    [op |-> op, status_code |-> code, message |-> message, duplicate |-> dup,
     unchanged |-> unchanged]

\* the handlers leave everything but the table and the workers alone
watchlistFrame ==
    <<redis_client, limit, window, now, memory_limits, redis_db, hist, last,
      ncalls, nfaults, threadVars, cacheVars, raceVars, bootVars, wrapped,
      inflight, store_answers>>

\* either add_to_watchlist up to its duplicate check: the SELECT has run.
\* Workers are separate processes over one database, so another worker's
\* request can run between the SELECT and the commit
AddSelect(p, handler, u, a) ==
    /\ wl_local[p].pc = "idle"
    /\ wl_next_id <= MaxItems
    /\ wl_local' = [wl_local EXCEPT ![p] =
                      [pc |-> "selected", handler |-> handler, user_id |-> u,
                       anime_id |-> a, existing |-> HasItem(watchlist_items, u, a)]]
    /\ UNCHANGED <<watchlist_items, wl_next_id, wl_response, watchlistFrame>>

\* routers/watchlist.py add_to_watchlist from `if existing_item:` on
RouterAddCommit(p) ==
    /\ wl_local[p].pc = "selected"
    /\ wl_local[p].handler = "router"
    /\ LET u == wl_local[p].user_id
           a == wl_local[p].anime_id
           dup == HasItem(watchlist_items, u, a)
           r == InsertItem(watchlist_items, wl_next_id, u, a, "plan_to_watch")
       IN  IF wl_local[p].existing
           THEN /\ wl_response' = [wl_response EXCEPT ![p] =
                      Response("add", HTTP_400_BAD_REQUEST, RouterDuplicateDetail,
                               dup, TRUE)]
                /\ UNCHANGED <<watchlist_items, wl_next_id>>
           ELSE /\ watchlist_items' = r.items
                /\ wl_next_id' = IF r.raised THEN wl_next_id ELSE wl_next_id + 1
                /\ wl_response' = [wl_response EXCEPT ![p] =
                      IF r.raised
                      THEN Response("add", HTTP_500_INTERNAL_SERVER_ERROR,
                                    IntegrityErrorMessage, dup, TRUE)
                      ELSE Response("add", HTTP_201_CREATED, <<>>, dup, FALSE)]
    /\ wl_local' = [wl_local EXCEPT ![p] = NoAdd]
    /\ UNCHANGED watchlistFrame

\* WatchlistService.add_to_watchlist from `if existing:` on
ServiceAddCommit(p) ==
    /\ wl_local[p].pc = "selected"
    /\ wl_local[p].handler = "service"
    /\ LET u == wl_local[p].user_id
           a == wl_local[p].anime_id
           dup == HasItem(watchlist_items, u, a)
           r == InsertItem(watchlist_items, wl_next_id, u, a, "plan_to_watch")
       IN  IF wl_local[p].existing
           THEN /\ wl_response' = [wl_response EXCEPT ![p] =
                      Response("add", HTTP_409_CONFLICT,
                               DuplicateWatchlistItemMessage(a), dup, TRUE)]
                /\ UNCHANGED <<watchlist_items, wl_next_id>>
           ELSE /\ watchlist_items' = r.items
                /\ wl_next_id' = IF r.raised THEN wl_next_id ELSE wl_next_id + 1
                /\ wl_response' = [wl_response EXCEPT ![p] =
                      IF r.raised
                      THEN Response("add", HTTP_500_INTERNAL_SERVER_ERROR,
                                    DatabaseErrorMessage, dup, TRUE)
                      ELSE Response("add", HTTP_201_CREATED, <<>>, dup, FALSE)]
    /\ wl_local' = [wl_local EXCEPT ![p] = NoAdd]
    /\ UNCHANGED watchlistFrame

\* update_watchlist_item: the update schema carries no anime_id
UpdateItem(p, u, id, st) ==
    /\ wl_local[p].pc = "idle"
    /\ LET found == {x \in watchlist_items : x.id = id /\ x.user_id = u}
       IN  IF found = {}
           THEN /\ wl_response' = [wl_response EXCEPT ![p] =
                      Response("update", HTTP_404_NOT_FOUND, <<>>, FALSE, TRUE)]
                /\ UNCHANGED watchlist_items
           ELSE /\ watchlist_items' =
                      {IF x \in found THEN [x EXCEPT !.status = st] ELSE x :
                          x \in watchlist_items}
                /\ wl_response' = [wl_response EXCEPT ![p] =
                      Response("update", 200, <<>>, FALSE,
                               watchlist_items' = watchlist_items)]
    /\ UNCHANGED <<wl_next_id, wl_local, watchlistFrame>>

\* remove_from_watchlist
RemoveItem(p, u, id) ==
    /\ wl_local[p].pc = "idle"
    /\ LET found == {x \in watchlist_items : x.id = id /\ x.user_id = u}
       IN  IF found = {}
           THEN /\ wl_response' = [wl_response EXCEPT ![p] =
                      Response("remove", HTTP_404_NOT_FOUND, <<>>, FALSE, TRUE)]
                /\ UNCHANGED watchlist_items
           ELSE /\ watchlist_items' = watchlist_items \ found
                /\ wl_response' = [wl_response EXCEPT ![p] =
                      Response("remove", 200, <<>>, FALSE, FALSE)]
    /\ UNCHANGED <<wl_next_id, wl_local, watchlistFrame>>

NextWatchlist ==
    \/ \E p \in Workers, h \in {"router", "service"}, u \in Users, a \in Animes :
          AddSelect(p, h, u, a)
    \/ \E p \in Workers : RouterAddCommit(p)
    \/ \E p \in Workers : ServiceAddCommit(p)
    \/ \E p \in Workers, u \in Users, id \in 1..MaxItems, st \in WatchStatuses :
          UpdateItem(p, u, id, st)
    \/ \E p \in Workers, u \in Users, id \in 1..MaxItems : RemoveItem(p, u, id)

InitWatchlist == Init /\ redis_client = FALSE /\ limit = 1 /\ window = 1

SpecWatchlist == InitWatchlist /\ [][NextWatchlist]_vars

\* C23: after any adds, updates and removes, two concurrent adds of one anime
\* by one user included, no user holds two items with the same anime_id, and
\* an add of an anime the user's watchlist already holds is answered with
\* HTTP 409 and a message containing "already in your watchlist", the stored
\* items unchanged
C23_WatchlistUnique ==
    /\ \A x, y \in watchlist_items :
          x.user_id = y.user_id /\ x.anime_id = y.anime_id => x = y
    /\ \A p \in Workers :
          wl_response[p].op = "add" /\ wl_response[p].duplicate =>
              /\ wl_response[p].status_code = HTTP_409_CONFLICT
              /\ Contains(wl_response[p].message,
                          <<"already", "in", "your", "watchlist">>)
              /\ wl_response[p].unchanged

\* ------------------------------------------------------ rate_limit wrapper
RATE_LIMITS ==
    [auth_login |-> [limit |-> 5, window |-> 300],
     auth_register |-> [limit |-> 3, window |-> 3600],
     api_general |-> [limit |-> 100, window |-> 60],
     api_watchlist |-> [limit |-> 50, window |-> 60]]

\* the names the decorator is applied with: the profiles and one unknown name
LimitNames == DOMAIN RATE_LIMITS \cup {"api_search"}

\* RATE_LIMITS.get(limit_name, RATE_LIMITS["api_general"])
ConfigOf(limit_name) ==
    IF limit_name \in DOMAIN RATE_LIMITS THEN RATE_LIMITS[limit_name]
    ELSE RATE_LIMITS["api_general"]

\* the authenticated user of the request; 0 when there is none
RequestUsers == {0, 7}

Anonymous == "anonymous"

\* `from .dependencies import get_current_user_optional`: dependencies.py
\* defines no such name, so the import raises ImportError
ImportRaises == TRUE

\* the user_id the wrapper ends up with for a request it found: the except
\* clause around the import leaves it at "anonymous"
UserIdOf(user) ==
    IF ImportRaises THEN Anonymous
    ELSE IF user # 0 THEN ToString(user) ELSE Anonymous

\* f"{limit_name}:{user_id}"
BucketKey(limit_name, user_id) == limit_name \o ":" \o user_id

\* what the wrapper did: the error it raised ("" when it returned), the
\* bucket and profile it checked, and how often it called the endpoint
Wrapped(limit_name, has_request, user, raised, checked, k, cfg, ok, n) ==
    [called |-> TRUE, limit_name |-> limit_name, has_request |-> has_request,
     user |-> user, raised |-> raised, checked |-> checked, key |-> k,
     limit |-> cfg.limit, window |-> cfg.window, allowed |-> ok,
     endpoint_calls |-> n]

\* the wrapper leaves everything but the limiter's store alone
wrapperFrame ==
    <<redis_client, limit, window, now, hist, last, nfaults, threadVars,
      cacheVars, raceVars, bootVars, watchlist_items, wl_next_id, wl_local,
      wl_response, inflight, store_answers>>

\* one call of the wrapper of an endpoint decorated with rate_limit(limit_name);
\* has_request: a positional argument has a `client` attribute
wrapper(limit_name, has_request, user) ==
    /\ ncalls < MaxWrapperCalls
    /\ ncalls' = ncalls + 1
    /\ LET cfg == ConfigOf(limit_name)
           k == BucketKey(limit_name, UserIdOf(user))
           a == IF redis_client
                THEN RedisIsAllowed(redis_db, k, now, now, cfg.limit, cfg.window)
                ELSE LocalIsAllowed(memory_limits, k, now, cfg.limit, cfg.window)
           db1 == IF redis_client THEN a.db ELSE redis_db
           m1 == IF redis_client THEN memory_limits ELSE a.m
           g == IF redis_client
                THEN RedisGetRemaining(db1, k, now, cfg.limit, cfg.window)
                ELSE LocalGetRemaining(m1, k, now, cfg.limit, cfg.window)
       IN  IF ~has_request
           THEN \* `if request:` reads a local that was never assigned
                /\ wrapped' = Wrapped(limit_name, has_request, user,
                                      "UnboundLocalError", FALSE, "", cfg, FALSE, 0)
                /\ UNCHANGED <<redis_db, memory_limits>>
           ELSE IF a.result
           THEN /\ wrapped' = Wrapped(limit_name, has_request, user, "", TRUE, k,
                                      cfg, TRUE, 1)
                /\ redis_db' = db1
                /\ memory_limits' = m1
           ELSE /\ wrapped' = Wrapped(limit_name, has_request, user,
                                      "RateLimitExceededError", TRUE, k, cfg,
                                      FALSE, 0)
                /\ redis_db' = IF redis_client THEN g.db ELSE redis_db
                /\ memory_limits' = IF redis_client THEN memory_limits ELSE g.m
    /\ UNCHANGED wrapperFrame

NextWrapper ==
    \/ \E n \in LimitNames, r \in BOOLEAN, u \in RequestUsers : wrapper(n, r, u)
    \/ Tick

InitWrapper == Init /\ limit = 1 /\ window = 1

SpecWrapper == InitWrapper /\ [][NextWrapper]_vars

\* the bucket identity the wrapper is to use
ExpectedUserId(has_request, user) ==
    IF has_request /\ user # 0 THEN ToString(user) ELSE Anonymous

\* C27: every call of the wrapper, with or without a request among the
\* positional arguments, checks the bucket "<limit_name>:<user id>" (anonymous
\* when there is no request or no authenticated user) with the limit and window
\* of the named profile, api_general's for an unknown name; it calls the
\* endpoint exactly once when is_allowed returns true and raises
\* RateLimitExceededError without calling it when is_allowed returns false
C27_WrapperChecksBucket ==
    wrapped.called =>
        /\ wrapped.checked
        /\ wrapped.key = BucketKey(wrapped.limit_name,
                                   ExpectedUserId(wrapped.has_request, wrapped.user))
        /\ wrapped.limit = ConfigOf(wrapped.limit_name).limit
        /\ wrapped.window = ConfigOf(wrapped.limit_name).window
        /\ wrapped.allowed => wrapped.endpoint_calls = 1 /\ wrapped.raised = ""
        /\ ~wrapped.allowed =>
               wrapped.endpoint_calls = 0 /\ wrapped.raised = "RateLimitExceededError"

\* ------------------------------------------- a shared store that goes silent
\* the commands the two clients send: the ping of __init__ and one command
\* (or one pipeline) per public operation
StoreOps == LimiterOps \cup CacheOps \cup {"ping"}

\* the keys an operation is called with
KeysOf(op) ==
    IF op \in LimiterOps THEN Keys
    ELSE IF op \in {"get", "set", "delete", "get_or_set"} THEN CacheKeys
    ELSE {""}

\* TRUE iff the component that op belongs to talks to the shared store
OnSharedStore(op) ==
    IF op \in LimiterOps THEN redis_client
    ELSE IF op \in CacheOps THEN cache_redis_client
    ELSE redis_client \/ cache_redis_client

Command(op, k, ret, failed) ==
    [op |-> op, key |-> k, returned |-> ret, failed |-> failed]

\* the stores after op(k) has been carried out
Effect(op, k) ==
    LET same == [db |-> redis_db, m |-> memory_limits, mc |-> memory_cache]
        lim(r) == IF redis_client THEN [same EXCEPT !.db = r.db]
                  ELSE [same EXCEPT !.m = r.m]
        cch(r) == [same EXCEPT !.db = r.db, !.mc = r.m]
    IN  CASE op = "is_allowed" ->
               lim(IF redis_client
                   THEN RedisIsAllowed(redis_db, k, now, now, limit, window)
                   ELSE LocalIsAllowed(memory_limits, k, now, limit, window))
          [] op = "get_remaining_requests" ->
               lim(IF redis_client
                   THEN RedisGetRemaining(redis_db, k, now, limit, window)
                   ELSE LocalGetRemaining(memory_limits, k, now, limit, window))
          [] op = "reset_limit" ->
               lim(IF redis_client THEN RedisReset(redis_db, k)
                   ELSE LocalReset(memory_limits, k))
          [] op = "get" -> cch(CacheGet(memory_cache, redis_db, k, now))
          [] op = "set" -> cch(CacheSet(memory_cache, redis_db, k, val, ttl_arg, now))
          [] op = "delete" -> cch(CacheDelete(memory_cache, redis_db, k, now))
          [] op = "clear" -> cch(CacheClear(memory_cache, redis_db))
          [] op = "get_or_set" ->
               cch(CacheGetOrSet(memory_cache, redis_db, k, val, ttl_arg, now))
          [] OTHER -> same

\* what the calls of this section leave alone
hangFrame ==
    <<redis_client, limit, window, hist, last, nfaults, threadVars, callerVars,
      raceVars, bootVars, watchlist_items, wl_next_id, wl_local, wl_response,
      wrapped>>

\* a public operation of a component on the local store: it runs to its end
LocalCall(op, k) ==
    /\ inflight.returned
    /\ ncalls < MaxCalls
    /\ ~OnSharedStore(op)
    /\ ncalls' = ncalls + 1
    /\ memory_limits' = Effect(op, k).m
    /\ memory_cache' = Effect(op, k).mc
    /\ inflight' = Command(op, k, TRUE, FALSE)
    /\ UNCHANGED <<redis_db, now, store_answers, hangFrame>>

\* a public operation (or __init__) of a component on the shared store sends
\* its command and waits for the reply. redis.from_url(settings.redis_url) is
\* given no socket_timeout and no socket_connect_timeout, so the wait has no
\* deadline: only the store ends it
SendCommand(op, k) ==
    /\ inflight.returned
    /\ ncalls < MaxCalls
    /\ OnSharedStore(op)
    /\ ncalls' = ncalls + 1
    /\ inflight' = Command(op, k, FALSE, FALSE)
    /\ UNCHANGED <<redis_db, memory_limits, memory_cache, now, store_answers, hangFrame>>

\* the store carries the command out and replies; the call returns
StoreReplies ==
    /\ ~inflight.returned
    /\ store_answers
    /\ redis_db' = Effect(inflight.op, inflight.key).db
    /\ inflight' = [inflight EXCEPT !.returned = TRUE]
    /\ UNCHANGED <<memory_limits, memory_cache, now, ncalls, store_answers, hangFrame>>

\* the store refuses or resets the connection: redis-py raises, the except
\* clause of the operation returns its default
StoreRaises ==
    /\ ~inflight.returned
    /\ store_answers
    /\ inflight' = [inflight EXCEPT !.returned = TRUE, !.failed = TRUE]
    /\ UNCHANGED <<redis_db, memory_limits, memory_cache, now, ncalls, store_answers,
                   hangFrame>>

\* from now on the store accepts what it is sent and answers nothing
StoreGoesSilent ==
    /\ store_answers
    /\ store_answers' = FALSE
    /\ UNCHANGED <<redis_db, memory_limits, memory_cache, now, ncalls, inflight,
                   hangFrame>>

NextHang ==
    \/ \E op \in StoreOps : \E k \in KeysOf(op) : LocalCall(op, k)
    \/ \E op \in StoreOps : \E k \in KeysOf(op) : SendCommand(op, k)
    \/ StoreReplies
    \/ StoreRaises
    \/ StoreGoesSilent
    \/ Tick

InitHang == InitStore /\ ttl_arg = NoTtl

SpecHang == InitHang /\ [][NextHang]_vars

\* a store that answers does answer in the end and the clock goes on; nothing
\* obliges a store to keep answering
SpecHangLive == SpecHang /\ WF_vars(StoreReplies) /\ WF_vars(Tick)

\* C22: every public operation of the Cache and the RateLimiter returns in
\* the end: when the shared store never answers, the call ends after a
\* bounded time as a store failure with the operation's default
C22_EveryCallReturns == (~inflight.returned) ~> inflight.returned

=============================================================================
